---- MODULE Spec2Model ----
(***************************************************************************)
(* Request cache and execution layer of the Forward Horizon management     *)
(* system: the PerformanceOptimizer TTL cache (performanceOptimizer.ts)    *)
(* and the ApiClient request de-duplication / retry wrapper (apiClient.ts).*)
(*                                                                         *)
(* Time is counted in whole seconds: the source's millisecond durations    *)
(* (Math.pow(2, attempt) * 1000, 10000, 5 * 60 * 1000) are all multiples   *)
(* of 1000 ms, and Date.now() is read once per synchronous block.          *)
(* JavaScript is single-threaded: every action below is one run-to-        *)
(* completion block of the source (a call up to its first await, or the    *)
(* continuation after an await).                                           *)
(***************************************************************************)
EXTENDS Integers, Sequences, FiniteSets, TLC

VARIABLES
  now,           \* Date.now(), in seconds
  cache,         \* PerformanceOptimizer.cache: Map in insertion order
  metrics,       \* PerformanceOptimizer.metrics.length
  requestQueue,  \* ApiClient.requestQueue: cacheKey -> owner of the promise
  pc,            \* per request() call: where the call is suspended
  req,           \* per call: endpoint and the destructured config
  attempt,       \* per call: executeRequest's loop variable
  calls,         \* per call: number of fetch() invocations it made
  lastError,     \* per call: executeRequest's lastError
  timeoutAt,     \* per call: when the attempt's abort timer is due
  backoffUntil,  \* per call: when the backoff timer is due
  failedAt,      \* per call: time the last failed attempt was caught
  promise,       \* per call: state of the promise executeRequest returned
  joinedTo,      \* per call: owner of the promise the call awaits (0: own)
  outcome,       \* per call: what request() returned or threw
  fromCache,     \* per call: request() returned at line 107
  issuedDuring,  \* per call: owner found in requestQueue when issued
  last           \* the operation the last step performed, and its result

vars == <<now, cache, metrics, requestQueue, pc, req, attempt, calls,
          lastError, timeoutAt, backoffUntil, failedAt, promise, joinedTo,
          outcome, fromCache, issuedDuring, last>>

cacheVars == <<now, cache>>
callVars == <<requestQueue, pc, req, attempt, calls, lastError, timeoutAt,
              backoffUntil, failedAt, promise, joinedTo, outcome, fromCache,
              issuedDuring>>

----------------------------------------------------------------------------
(* Bounds of the model *)

\* config.maxSize, scaled down from the source's 100
maxSize == 2
\* the clock stops here
MaxTime == 2
\* concurrent request() calls
NumCallers == 2
\* largest `retries` a call is given
MaxRetries == 2
\* the same for the single call of SpecRetry
RetryMaxTime == 7
RetryMaxRetries == 3

----------------------------------------------------------------------------
(* Values *)

\* JavaScript null: what getCache returns for a missing or expired key
Null == "null"
\* an omitted ttl argument (undefined)
Omitted == -1
\* config.ttl: 5 * 60 * 1000 ms, in seconds (the unit of `now`)
configTTL == 300
keyPrefix == "fh_"

\* JavaScript truthiness of a value, as tested by `if (cached)`
Truthy(v) == v \notin {"null", "0", "false", "\"\""}

----------------------------------------------------------------------------
(* PerformanceOptimizer: the cache *)

PrefixKey(key) == keyPrefix \o key

\* position of cacheKey in the Map, 0 when absent
IndexOf(c, cacheKey) ==
  IF \E i \in 1..Len(c) : c[i].key = cacheKey
  THEN CHOOSE i \in 1..Len(c) : c[i].key = cacheKey
  ELSE 0

MapHas(c, cacheKey) == IndexOf(c, cacheKey) # 0

\* Map.set: an existing key keeps its position, a new key goes last
MapSet(c, item) ==
  IF MapHas(c, item.key)
  THEN [c EXCEPT ![IndexOf(c, item.key)] = item]
  ELSE Append(c, item)

MapDelete(c, cacheKey) == SelectSeq(c, LAMBDA e : e.key # cacheKey)

IsExpiredStrict(item, t) == t - item.timestamp >= item.ttl
\* `Date.now() - item.timestamp > item.ttl`
IsExpired(item, t) == t - item.timestamp > item.ttl

cleanupNothing(c, t) == c
\* cleanupCache: delete every entry whose age exceeds its ttl
cleanupCache(c, t) == SelectSeq(c, LAMBDA e : ~IsExpired(e, t))

\* the loop of evictOldest: index of the entry it deletes, 0 for none
RECURSIVE OldestScan(_, _, _, _)
OldestScan(c, i, oldestIdx, oldestTime) ==
  IF i > Len(c) THEN oldestIdx
  ELSE IF c[i].timestamp < oldestTime
       THEN OldestScan(c, i + 1, i, c[i].timestamp)
       ELSE OldestScan(c, i + 1, oldestIdx, oldestTime)

evictOldest(c, t) ==
  LET oldestIdx == OldestScan(c, 1, 0, t)
  IN IF oldestIdx # 0 THEN MapDelete(c, c[oldestIdx].key) ELSE c

\* `ttl || this.config.ttl`
EffectiveTTL(ttl) == IF ttl = Omitted \/ ttl = 0 THEN configTTL ELSE ttl

setCache(c, key, data, ttl, t) ==
  LET cleaned == cleanupCache(c, t)
      room    == IF Len(cleaned) >= maxSize THEN evictOldest(cleaned, t)
                 ELSE cleaned
  IN MapSet(room, [key |-> PrefixKey(key), data |-> data, timestamp |-> t,
                   ttl |-> EffectiveTTL(ttl)])

clearNothing(c) == c
\* `this.cache.clear()`
clearCache(c) == <<>>

\* what getCache returns
getCacheResult(c, key, t) ==
  LET i == IndexOf(c, PrefixKey(key))
  IN IF i = 0 THEN Null
     ELSE IF IsExpired(c[i], t) THEN Null
     ELSE c[i].data

\* the Map after getCache
getCacheStore(c, key, t) ==
  LET i == IndexOf(c, PrefixKey(key))
  IN IF i # 0 /\ IsExpired(c[i], t) THEN MapDelete(c, PrefixKey(key)) ELSE c

----------------------------------------------------------------------------
(* ApiClient: keys, errors, the retry policy *)

baseURL == "/api"
Url(endpoint) == baseURL \o endpoint

\* JSON.stringify of an object whose members were inserted in this order
RECURSIVE Members(_)
Members(pairs) ==
  IF pairs = <<>> THEN ""
  ELSE "\"" \o pairs[1][1] \o "\":" \o pairs[1][2]
       \o (IF Len(pairs) > 1 THEN "," ELSE "") \o Members(Tail(pairs))

\* `JSON.stringify(body || {})`: an undefined body has no members
JSONStringify(body) ==
  IF body.defined THEN "{" \o Members(body.pairs) \o "}" ELSE "{}"

Undefined == [defined |-> FALSE, pairs |-> <<>>]

KeyOfUrl(r) == Url(r.endpoint)
CacheKeyNoMethod(r) == Url(r.endpoint) \o "-" \o JSONStringify(r.body)
\* `${method}-${url}-${JSON.stringify(body || {})}`
CacheKey(r) == r.method \o "-" \o Url(r.endpoint) \o "-" \o JSONStringify(r.body)

\* String.prototype.includes
Includes(msg, pat) ==
  \E i \in 1..(Len(msg) - Len(pat) + 1) : SubSeq(msg, i, i + Len(pat) - 1) = pat

Statuses == {[code |-> 200, text |-> "200", statusText |-> "OK"],
             [code |-> 404, text |-> "404", statusText |-> "Not Found"],
             [code |-> 503, text |-> "503", statusText |-> "Service Unavailable"]}

RetryStatuses ==
  Statuses \cup
  {[code |-> 400, text |-> "400", statusText |-> "Bad Request"],
   [code |-> 499, text |-> "499", statusText |-> ""],
   [code |-> 500, text |-> "500", statusText |-> "Internal Server Error"]}

\* Response.ok
ResponseOk(s) == s.code >= 200 /\ s.code <= 299

\* `HTTP ${response.status}: ${response.statusText}`
HttpError(s) == "HTTP " \o s.text \o ": " \o s.statusText
NetworkError == "TypeError: Failed to fetch"
AbortError == "AbortError: The operation was aborted"
SyntaxError == "SyntaxError: Unexpected end of JSON input"
NoError == "undefined"

RetryEverything(message) == FALSE
AbortIsFatal(message) ==
  Includes(message, "HTTP 4") \/ Includes(message, "AbortError")
\* `error.message.includes('HTTP 4')`
IsClientError(message) == Includes(message, "HTTP 4")

LoopOneMore(a, retries) == a <= retries + 1
\* `attempt <= retries`
LoopContinues(a, retries) == a <= retries

WaitsAlways(a, retries) == TRUE
\* `attempt < retries`
WaitsBackoff(a, retries) == a < retries

RECURSIVE Pow2(_)
Pow2(n) == IF n <= 0 THEN 1 ELSE 2 * Pow2(n - 1)

BackoffFromZero(a) == Pow2(a - 1)
\* `Math.pow(2, attempt) * 1000` ms
BackoffDelay(a) == Pow2(a)

KeepFirstError(previous, error) ==
  IF previous = NoError THEN error ELSE previous
\* `lastError = error as Error`
LastError(previous, error) == error

CacheableAnyOption(r) == r.method = "GET"
\* `method === 'GET' && cache`
Cacheable(r) == r.method = "GET" /\ r.cache

\* `if (cached)`
CacheHit(cached) == Truthy(cached)

\* recordMetric: push, then keep the last 100
recordMetric(m) == IF m + 1 > 100 THEN 100 ELSE m + 1

----------------------------------------------------------------------------
(* The calls the model issues *)

Callers == 1..NumCallers
Endpoints == {"/residents"}
Methods == {"GET", "POST"}
Bodies == {Undefined}
CacheTTLs == {1}
Timeouts == {1}

\* endpoint and config of a request() call, after the destructuring defaults
ConfigsUpTo(maxRetries) ==
  [method : Methods, endpoint : Endpoints, body : Bodies, cache : BOOLEAN,
   cacheTTL : CacheTTLs, retries : 1..maxRetries, timeout : Timeouts]

Configs == ConfigsUpTo(MaxRetries)

NoConfig == [method |-> "GET", endpoint |-> "", body |-> Undefined,
             cache |-> FALSE, cacheTTL |-> 0, retries |-> 0, timeout |-> 0]

\* keys and ttl arguments of direct setCache / getCache calls
DirectKeys == {CacheKey(r) : r \in {x \in Configs : x.method = "GET"}}
DirectPayloads == {"0", "[1]"}
FetchedPayloads == {"[1]", "[2]"}
DirectTTLs == {1}

NoPromise == [state |-> "none", val |-> Null]
NoOutcome == [kind |-> "none", val |-> Null]
NoOp == [op |-> "none", key |-> "", result |-> Null, present |-> FALSE]
EmptyQueue == [k \in {} |-> 0]

Init ==
  /\ now = 0
  /\ cache = <<>>
  /\ metrics = 0
  /\ requestQueue = EmptyQueue
  /\ pc = [c \in Callers |-> "idle"]
  /\ req = [c \in Callers |-> NoConfig]
  /\ attempt = [c \in Callers |-> 0]
  /\ calls = [c \in Callers |-> 0]
  /\ lastError = [c \in Callers |-> NoError]
  /\ timeoutAt = [c \in Callers |-> 0]
  /\ backoffUntil = [c \in Callers |-> 0]
  /\ failedAt = [c \in Callers |-> 0]
  /\ promise = [c \in Callers |-> NoPromise]
  /\ joinedTo = [c \in Callers |-> 0]
  /\ outcome = [c \in Callers |-> NoOutcome]
  /\ fromCache = [c \in Callers |-> FALSE]
  /\ issuedDuring = [c \in Callers |-> 0]
  /\ last = NoOp

----------------------------------------------------------------------------
(* Direct use of the PerformanceOptimizer singleton.  The actions leave    *)
(* `last` to the next-state relation that uses them.                       *)

\* the clock advances; each next-state relation bounds it
Tick ==
  /\ now' = now + 1
  /\ UNCHANGED <<cache, metrics, callVars>>

SetCache(key, data, ttl) ==
  /\ cache' = setCache(cache, key, data, ttl, now)
  /\ UNCHANGED <<now, metrics, callVars>>

GetCache(key) ==
  /\ cache' = getCacheStore(cache, key, now)
  /\ UNCHANGED <<now, metrics, callVars>>

ClearCache ==
  /\ cache' = clearCache(cache)
  /\ UNCHANGED <<now, metrics, callVars>>

\* the operation a step of the cache performed, with what it returned
Logged(op, key, result) ==
  last' = [op |-> op, key |-> key, result |-> result,
           present |-> MapHas(cache, PrefixKey(key))]

\* setCache returns nothing; its log entry notes whether its cleanupCache
\* found an expired entry to delete
Purged(c, t) == IF cleanupCache(c, t) # c THEN "purged" ELSE Null

CacheKeys == {"a", "b", "c"}
CachePayloads == {"0", "[1]"}
SetTTLs == {Omitted, 0, 1}
CacheMaxTime == 3

NextCache ==
  \/ now < CacheMaxTime /\ Tick /\ Logged("tick", "", Null)
  \/ \E k \in CacheKeys, d \in CachePayloads, t \in SetTTLs :
       SetCache(k, d, t) /\ Logged("setCache", k, Purged(cache, now))
  \/ \E k \in CacheKeys :
       GetCache(k) /\ Logged("getCache", k, getCacheResult(cache, k, now))
  \/ ClearCache /\ Logged("clearCache", "", Null)

SpecCache == Init /\ [][NextCache]_vars

----------------------------------------------------------------------------
(* ApiClient.request and executeRequest *)

QueueHasNever(q, key) == FALSE
\* `this.requestQueue.has(cacheKey)`
QueueHas(q, key) == key \in DOMAIN q
QueueSetDropped(q, key, c) == q
\* `this.requestQueue.set(cacheKey, requestPromise)`
QueueSet(q, key, c) ==
  [k \in DOMAIN q \cup {key} |-> IF k = key THEN c ELSE q[k]]
QueueKeep(q, key) == q
\* `this.requestQueue.delete(cacheKey)`
QueueDelete(q, key) == [k \in DOMAIN q \ {key} |-> q[k]]

Pending == [state |-> "pending", val |-> Null]
Settled(p) == p.state \in {"fulfilled", "rejected"}
OutcomeOf(p) ==
  [kind |-> IF p.state = "fulfilled" THEN "resolved" ELSE "rejected",
   val |-> p.val]

\* where call c is suspended, and the locals of its executeRequest
Exec(c, p, a, n, error, tAt, bUntil, fAt, prom) ==
  /\ pc' = [pc EXCEPT ![c] = p]
  /\ attempt' = [attempt EXCEPT ![c] = a]
  /\ calls' = [calls EXCEPT ![c] = n]
  /\ lastError' = [lastError EXCEPT ![c] = error]
  /\ timeoutAt' = [timeoutAt EXCEPT ![c] = tAt]
  /\ backoffUntil' = [backoffUntil EXCEPT ![c] = bUntil]
  /\ failedAt' = [failedAt EXCEPT ![c] = fAt]
  /\ promise' = [promise EXCEPT ![c] = prom]

\* iteration a of the retry loop begins: the abort timer is armed and
\* fetch() called
Fetching(c, a, error, timeout) ==
  Exec(c, "fetch", a, calls[c] + 1, error, now + timeout, 0, 0, Pending)

\* executeRequest returns data or throws: its promise settles, its locals
\* are gone
Settle(c, state, val) ==
  Exec(c, "settled", 0, calls[c], NoError, 0, 0, 0,
       [state |-> state, val |-> val])

\* the loop variable is incremented and tested; after the loop, lastError
\* is thrown
NextAttempt(c, error) ==
  IF LoopContinues(attempt[c] + 1, req[c].retries)
  THEN Fetching(c, attempt[c] + 1, error, req[c].timeout)
  ELSE Settle(c, "rejected", error)

\* the catch block of executeRequest
Catch(c, message) ==
  /\ LET error == LastError(lastError[c], message)
     IN IF IsClientError(error)
        THEN Settle(c, "rejected", error)
        ELSE IF WaitsBackoff(attempt[c], req[c].retries)
        THEN Exec(c, "backoff", attempt[c], calls[c], error, 0,
                  now + BackoffDelay(attempt[c]), now, promise[c])
        ELSE NextAttempt(c, error)
  /\ UNCHANGED <<now, cache, metrics, requestQueue, req, joinedTo, outcome,
                 fromCache, issuedDuring>>

\* request(endpoint, config), up to its return or its first await
Request(c, r) ==
  LET cacheKey == CacheKey(r)
      lookup   == Cacheable(r)
      cached   == IF lookup THEN getCacheResult(cache, cacheKey, now) ELSE Null
  IN
  /\ pc[c] = "idle"
  /\ req' = [req EXCEPT ![c] = r]
  /\ cache' = IF lookup THEN getCacheStore(cache, cacheKey, now) ELSE cache
  /\ issuedDuring' = [issuedDuring EXCEPT
                        ![c] = IF cacheKey \in DOMAIN requestQueue
                               THEN requestQueue[cacheKey] ELSE 0]
  /\ IF lookup /\ CacheHit(cached)
     THEN /\ Exec(c, "done", 0, 0, NoError, 0, 0, 0, NoPromise)
          /\ metrics' = recordMetric(metrics)
          /\ outcome' = [outcome EXCEPT
                           ![c] = [kind |-> "resolved", val |-> cached]]
          /\ fromCache' = [fromCache EXCEPT ![c] = TRUE]
          /\ UNCHANGED <<requestQueue, joinedTo>>
     ELSE IF QueueHas(requestQueue, cacheKey)
     THEN /\ Exec(c, "joined", 0, 0, NoError, 0, 0, 0, NoPromise)
          /\ joinedTo' = [joinedTo EXCEPT ![c] = requestQueue[cacheKey]]
          /\ UNCHANGED <<metrics, requestQueue, outcome, fromCache>>
     ELSE /\ IF LoopContinues(1, r.retries)
             THEN Fetching(c, 1, NoError, r.timeout)
             ELSE Settle(c, "rejected", NoError)
          /\ requestQueue' = QueueSet(requestQueue, cacheKey, c)
          /\ UNCHANGED <<metrics, joinedTo, outcome, fromCache>>
  /\ UNCHANGED now

\* fetch() resolves with a response: the abort timer is cleared; a response
\* that is not ok is thrown as an Error
FetchRespond(c, s) ==
  /\ pc[c] = "fetch"
  /\ IF ResponseOk(s)
     THEN /\ Exec(c, "json", attempt[c], calls[c], lastError[c], 0, 0, 0,
                  promise[c])
          /\ UNCHANGED <<now, cache, metrics, requestQueue, req, joinedTo,
                         outcome, fromCache, issuedDuring>>
     ELSE Catch(c, HttpError(s))

\* fetch() rejects: the network failed
FetchFail(c) ==
  /\ pc[c] = "fetch"
  /\ Catch(c, NetworkError)

\* the abort timer fires while fetch() is pending: fetch() rejects
TimeoutFire(c) ==
  /\ pc[c] = "fetch"
  /\ now >= timeoutAt[c]
  /\ Catch(c, AbortError)

\* response.json() resolves: a cacheable GET is stored, data is returned
JsonDone(c, data) ==
  /\ pc[c] = "json"
  /\ cache' = IF Cacheable(req[c])
              THEN setCache(cache, KeyOfUrl(req[c]), data, req[c].cacheTTL, now)
              ELSE cache
  /\ Settle(c, "fulfilled", data)
  /\ UNCHANGED <<now, metrics, requestQueue, req, joinedTo, outcome,
                 fromCache, issuedDuring>>

\* response.json() rejects: the body is not JSON
JsonFail(c) ==
  /\ pc[c] = "json"
  /\ Catch(c, SyntaxError)

\* the backoff timer fires
BackoffFire(c) ==
  /\ pc[c] = "backoff"
  /\ now >= backoffUntil[c]
  /\ NextAttempt(c, lastError[c])
  /\ UNCHANGED <<now, cache, metrics, requestQueue, req, joinedTo, outcome,
                 fromCache, issuedDuring>>

\* the call that started executeRequest resumes after `await requestPromise`
\* and runs its finally block
OwnerFinish(c) ==
  /\ pc[c] = "settled"
  /\ metrics' = IF promise[c].state = "fulfilled" THEN recordMetric(metrics)
                ELSE metrics
  /\ outcome' = [outcome EXCEPT ![c] = OutcomeOf(promise[c])]
  /\ requestQueue' = QueueDelete(requestQueue, CacheKey(req[c]))
  /\ Exec(c, "done", 0, calls[c], NoError, 0, 0, 0, promise[c])
  /\ UNCHANGED <<now, cache, req, joinedTo, fromCache, issuedDuring>>

\* a call that found the key in requestQueue resumes after its await; the
\* owner's continuation was registered first and has run
JoinerFinish(c) ==
  /\ pc[c] = "joined"
  /\ Settled(promise[joinedTo[c]])
  /\ pc[joinedTo[c]] = "done"
  /\ metrics' = IF promise[joinedTo[c]].state = "fulfilled"
                THEN recordMetric(metrics) ELSE metrics
  /\ outcome' = [outcome EXCEPT ![c] = OutcomeOf(promise[joinedTo[c]])]
  /\ Exec(c, "done", 0, 0, NoError, 0, 0, 0, NoPromise)
  /\ UNCHANGED <<now, cache, requestQueue, req, joinedTo, fromCache,
                 issuedDuring>>

\* the steps of the system; the calls are numbered in the order they are
\* issued
Next ==
  \/ now < MaxTime /\ Tick /\ UNCHANGED last
  \/ \E k \in DirectKeys, d \in DirectPayloads, t \in DirectTTLs :
       SetCache(k, d, t) /\ UNCHANGED last
  \/ ClearCache /\ UNCHANGED last
  \/ \E c \in Callers, r \in Configs :
       /\ \A d \in Callers : d < c => pc[d] # "idle"
       /\ Request(c, r)
       /\ UNCHANGED last
  \/ \E c \in Callers, s \in Statuses : FetchRespond(c, s) /\ UNCHANGED last
  \/ \E c \in Callers : FetchFail(c) /\ UNCHANGED last
  \/ \E c \in Callers : TimeoutFire(c) /\ UNCHANGED last
  \/ \E c \in Callers, d \in FetchedPayloads :
       JsonDone(c, d) /\ UNCHANGED last
  \/ \E c \in Callers : JsonFail(c) /\ UNCHANGED last
  \/ \E c \in Callers : BackoffFire(c) /\ UNCHANGED last
  \/ \E c \in Callers : OwnerFinish(c) /\ UNCHANGED last
  \/ \E c \in Callers : JoinerFinish(c) /\ UNCHANGED last

Spec == Init /\ [][Next]_vars

\* one call alone, with up to RetryMaxRetries attempts; `last` records the
\* event of each step
RetryCallers == {1}
RetryConfigs == ConfigsUpTo(RetryMaxRetries)
Event(op, key) ==
  last' = [op |-> op, key |-> key, result |-> Null, present |-> FALSE]

NextRetry ==
  \/ now < RetryMaxTime /\ Tick /\ Event("tick", "")
  \/ \E k \in DirectKeys, d \in DirectPayloads, t \in DirectTTLs :
       SetCache(k, d, t) /\ Event("setCache", k)
  \/ ClearCache /\ Event("clearCache", "")
  \/ \E c \in RetryCallers, r \in RetryConfigs :
       Request(c, r) /\ Event("request", "")
  \/ \E c \in RetryCallers, s \in RetryStatuses :
       FetchRespond(c, s) /\ Event("respond", s.text)
  \/ \E c \in RetryCallers : FetchFail(c) /\ Event("fail", "")
  \/ \E c \in RetryCallers : TimeoutFire(c) /\ Event("timeout", "")
  \/ \E c \in RetryCallers, d \in FetchedPayloads :
       JsonDone(c, d) /\ Event("json", d)
  \/ \E c \in RetryCallers : JsonFail(c) /\ Event("jsonFail", "")
  \/ \E c \in RetryCallers : BackoffFire(c) /\ Event("backoff", "")
  \/ \E c \in RetryCallers : OwnerFinish(c) /\ Event("finish", "")

SpecRetry == Init /\ [][NextRetry]_vars

----------------------------------------------------------------------------
(* PerformanceOptimizer.prefetchData *)

\* the continuation of prefetchData's callback after `await response.json()`
\* resolved: the body is stored under the endpoint with the default ttl,
\* whatever the status of the response was (response.ok is not tested)
PrefetchStore(endpoint, data) ==
  /\ cache' = setCache(cache, endpoint, data, Omitted, now)
  /\ UNCHANGED <<now, metrics, callVars>>

\* two concurrent calls and a prefetch; `last` records the event of each
\* step (for a prefetch: the status of the response whose body is stored;
\* for a clearCache: the key of the first entry it removes)
LogMaxTime == 2
PrefetchEndpoints == {Url(e) : e \in Endpoints}
NextLog ==
  \/ now < LogMaxTime /\ Tick /\ Event("tick", "")
  \/ ClearCache /\ Event("clearCache", IF cache = <<>> THEN "" ELSE cache[1].key)
  \/ \E e \in PrefetchEndpoints, s \in Statuses, d \in FetchedPayloads :
       PrefetchStore(e, d) /\ Event("prefetch", s.text)
  \/ \E c \in Callers, r \in Configs :
       /\ \A d \in Callers : d < c => pc[d] # "idle"
       /\ Request(c, r)
       /\ Event("request", "")
  \/ \E c \in Callers, s \in Statuses :
       FetchRespond(c, s) /\ Event("respond", s.text)
  \/ \E c \in Callers : FetchFail(c) /\ Event("fail", "")
  \/ \E c \in Callers : TimeoutFire(c) /\ Event("timeout", "")
  \/ \E c \in Callers, d \in FetchedPayloads :
       JsonDone(c, d) /\ Event("json", d)
  \/ \E c \in Callers : JsonFail(c) /\ Event("jsonFail", "")
  \/ \E c \in Callers : BackoffFire(c) /\ Event("backoff", "")
  \/ \E c \in Callers : OwnerFinish(c) /\ Event("finish", "")
  \/ \E c \in Callers : JoinerFinish(c) /\ Event("finish", "")

SpecLog == Init /\ [][NextLog]_vars

----------------------------------------------------------------------------
(* Calls whose bodies hold the same members in different insertion order *)

BodyAB == [defined |-> TRUE, pairs |-> << <<"a", "1">>, <<"b", "2">> >>]
BodyBA == [defined |-> TRUE, pairs |-> << <<"b", "2">>, <<"a", "1">> >>]
KeyBodies == {BodyAB, BodyBA}
KeyConfigs ==
  [method : Methods, endpoint : Endpoints, body : KeyBodies, cache : BOOLEAN,
   cacheTTL : CacheTTLs, retries : {1}, timeout : Timeouts]

\* a call with retries = 1 never waits a backoff
NextKeys ==
  \/ now < MaxTime /\ Tick /\ UNCHANGED last
  \/ \E c \in Callers, r \in KeyConfigs :
       /\ \A d \in Callers : d < c => pc[d] # "idle"
       /\ Request(c, r)
       /\ UNCHANGED last
  \/ \E c \in Callers, s \in Statuses : FetchRespond(c, s) /\ UNCHANGED last
  \/ \E c \in Callers : FetchFail(c) /\ UNCHANGED last
  \/ \E c \in Callers : TimeoutFire(c) /\ UNCHANGED last
  \/ \E c \in Callers, d \in FetchedPayloads :
       JsonDone(c, d) /\ UNCHANGED last
  \/ \E c \in Callers : JsonFail(c) /\ UNCHANGED last
  \/ \E c \in Callers : OwnerFinish(c) /\ UNCHANGED last
  \/ \E c \in Callers : JoinerFinish(c) /\ UNCHANGED last

SpecKeys == Init /\ [][NextKeys]_vars

----------------------------------------------------------------------------
(* ApiClient.prefetchCriticalData *)

\* the destructuring defaults of request(), in seconds
DefaultCacheTTL == 300
DefaultRetries == 3
DefaultTimeout == 10
\* getAnalytics: cacheTTL 10 * 60 * 1000
AnalyticsCacheTTL == 600

\* the calls of the prefetchPromises array: getResidents({ limit: 10 }),
\* getAnalytics({ period: 30 }), getHealth()
PrefetchRequests ==
  << [method |-> "GET", endpoint |-> "/residents?limit=10",
      body |-> Undefined, cache |-> TRUE, cacheTTL |-> DefaultCacheTTL,
      retries |-> DefaultRetries, timeout |-> DefaultTimeout],
     [method |-> "GET", endpoint |-> "/analytics?period=30",
      body |-> Undefined, cache |-> TRUE, cacheTTL |-> AnalyticsCacheTTL,
      retries |-> DefaultRetries, timeout |-> DefaultTimeout],
     [method |-> "GET", endpoint |-> "/health",
      body |-> Undefined, cache |-> FALSE, cacheTTL |-> DefaultCacheTTL,
      retries |-> DefaultRetries, timeout |-> DefaultTimeout] >>
PrefetchCallers == DOMAIN PrefetchRequests

RECURSIVE recordMetrics(_, _)
recordMetrics(m, n) == IF n = 0 THEN m ELSE recordMetrics(recordMetric(m), n - 1)

\* prefetchCriticalData up to its await: the three calls are issued one
\* after the other in one synchronous block, each running request() up to
\* its return or its first await; nothing else is in flight
PrefetchCriticalData ==
  LET r(c)      == PrefetchRequests[c]
      cached(c) == IF Cacheable(r(c))
                   THEN getCacheResult(cache, CacheKey(r(c)), now) ELSE Null
      hit(c)    == Cacheable(r(c)) /\ CacheHit(cached(c))
      started   == {c \in PrefetchCallers : ~hit(c)}
      lookedUp  == {c \in PrefetchCallers : Cacheable(r(c))}
  IN
  /\ \A c \in DOMAIN pc : pc[c] = "idle"
  /\ requestQueue = EmptyQueue
  /\ req' = [c \in PrefetchCallers |-> r(c)]
  /\ cache' = SelectSeq(cache, LAMBDA e :
                ~\E c \in lookedUp : /\ e.key = PrefixKey(CacheKey(r(c)))
                                     /\ IsExpired(e, now))
  /\ metrics' = recordMetrics(metrics, Cardinality(PrefetchCallers \ started))
  /\ requestQueue' = [k \in {CacheKey(r(c)) : c \in started} |->
                        CHOOSE c \in started : CacheKey(r(c)) = k]
  /\ pc' = [c \in PrefetchCallers |-> IF hit(c) THEN "done" ELSE "fetch"]
  /\ attempt' = [c \in PrefetchCallers |-> IF hit(c) THEN 0 ELSE 1]
  /\ calls' = [c \in PrefetchCallers |-> IF hit(c) THEN 0 ELSE 1]
  /\ lastError' = [c \in PrefetchCallers |-> NoError]
  /\ timeoutAt' = [c \in PrefetchCallers |->
                     IF hit(c) THEN 0 ELSE now + r(c).timeout]
  /\ backoffUntil' = [c \in PrefetchCallers |-> 0]
  /\ failedAt' = [c \in PrefetchCallers |-> 0]
  /\ promise' = [c \in PrefetchCallers |->
                   IF hit(c) THEN NoPromise ELSE Pending]
  /\ joinedTo' = [c \in PrefetchCallers |-> 0]
  /\ outcome' = [c \in PrefetchCallers |->
                   IF hit(c) THEN [kind |-> "resolved", val |-> cached(c)]
                   ELSE NoOutcome]
  /\ fromCache' = [c \in PrefetchCallers |-> hit(c)]
  /\ issuedDuring' = [c \in PrefetchCallers |-> 0]
  /\ UNCHANGED now

\* Promise.all: rejects as soon as one promise rejected
PromiseAll(outcomes) ==
  IF \E c \in DOMAIN outcomes : outcomes[c].kind = "rejected" THEN "rejected"
  ELSE IF \A c \in DOMAIN outcomes : outcomes[c].kind = "resolved"
  THEN "fulfilled" ELSE "pending"
\* Promise.allSettled: fulfils once every promise has settled
PromiseAllSettled(outcomes) ==
  IF \A c \in DOMAIN outcomes : outcomes[c].kind # "none" THEN "fulfilled"
  ELSE "pending"

\* prefetchCriticalData resumes after `await Promise.allSettled(...)` and
\* returns, or the await throws; `last` records how its promise settled
PrefetchReturn ==
  /\ DOMAIN pc = PrefetchCallers
  /\ \A c \in PrefetchCallers : pc[c] # "idle"
  /\ last.op # "prefetchCriticalData"
  /\ PromiseAllSettled(outcome) # "pending"
  /\ last' = [op |-> "prefetchCriticalData", key |-> PromiseAllSettled(outcome),
              result |-> Null, present |-> FALSE]
  /\ UNCHANGED <<now, cache, metrics, callVars>>

\* time passes until the next timer is due
PrefetchMaxTime == 10
DueTimes ==
  {timeoutAt[c] : c \in {d \in DOMAIN pc : pc[d] = "fetch"}}
    \cup {backoffUntil[c] : c \in {d \in DOMAIN pc : pc[d] = "backoff"}}
TickToNextTimer ==
  /\ \E t \in DueTimes : t > now /\ t <= PrefetchMaxTime
  /\ now' = CHOOSE t \in DueTimes :
              /\ t > now
              /\ \A u \in DueTimes : u > now => t <= u
  /\ UNCHANGED <<cache, metrics, callVars>>

PrefetchPayloads == {"[1]"}
PrefetchStatuses == {s \in Statuses : s.text \in {"200", "404"}}
NextPrefetch ==
  \/ TickToNextTimer /\ UNCHANGED last
  \/ PrefetchCriticalData /\ UNCHANGED last
  \/ PrefetchReturn
  \/ \E c \in PrefetchCallers \cap DOMAIN pc, s \in PrefetchStatuses :
       FetchRespond(c, s) /\ UNCHANGED last
  \/ \E c \in PrefetchCallers \cap DOMAIN pc : FetchFail(c) /\ UNCHANGED last
  \/ \E c \in PrefetchCallers \cap DOMAIN pc : TimeoutFire(c) /\ UNCHANGED last
  \/ \E c \in PrefetchCallers \cap DOMAIN pc, d \in PrefetchPayloads :
       JsonDone(c, d) /\ UNCHANGED last
  \/ \E c \in PrefetchCallers \cap DOMAIN pc : JsonFail(c) /\ UNCHANGED last
  \/ \E c \in PrefetchCallers \cap DOMAIN pc : BackoffFire(c) /\ UNCHANGED last
  \/ \E c \in PrefetchCallers \cap DOMAIN pc : OwnerFinish(c) /\ UNCHANGED last

SpecPrefetch == Init /\ [][NextPrefetch]_vars

----------------------------------------------------------------------------
(* The route handlers GET /api/analytics, POST and PUT /api/payments *)

\* An object is the sequence of its members <<name, value>> in insertion
\* order; NextResponse.json(body) sends the members of body.
FieldNames(obj) == {obj[i][1] : i \in 1..Len(obj)}

\* `{ ...a, ...b }` for objects without a common member name
Spread(a, b) == a \o b

\* `analytics-${period}-${type}`
AnalyticsKey(period, type) == "analytics-" \o period \o "-" \o type

\* setCache(cacheKey, analytics, 10 * 60 * 1000)
AnalyticsRouteTTL == 600

\* the blocks `if (type === 'all' || type === '<section>')`, with the tables
\* each reads and the members each adds to `analytics`
SectionBlocks ==
  << [type |-> "residents", table |-> "residents", member |-> "residents"],
     [type |-> "financial", table |-> "payments", member |-> "financial"],
     [type |-> "operations", table |-> "schedule_events",
      member |-> "operations"],
     [type |-> "operations", table |-> "maintenance_requests",
      member |-> "maintenance"],
     [type |-> "inventory", table |-> "inventory_items",
      member |-> "inventory"] >>

\* `analytics` after the blocks ran: a block adds its member when the type
\* selects it and its query returned rows without an error
RECURSIVE Analytics(_, _, _, _)
Analytics(type, failed, db, i) ==
  IF i > Len(SectionBlocks) THEN <<>>
  ELSE (IF /\ type \in {"all", SectionBlocks[i].type}
           /\ SectionBlocks[i].table \notin failed
        THEN << <<SectionBlocks[i].member, db>> >> ELSE <<>>)
       \o Analytics(type, failed, db, i + 1)

\* the body returned on a cache miss
MissBody(r, analytics) ==
  Spread(<< <<"period", r.period>>,
            <<"startDate", r.endDate \o "-" \o r.period \o "d">>,
            <<"endDate", r.endDate>> >>, analytics)
\* the body returned on a cache hit: `NextResponse.json(cached)`
HitBody(r, cached) == cached

\* getCache returned an object, which `if (cached)` takes as true
ObjectCached(c, key, t) ==
  LET i == IndexOf(c, PrefixKey(key))
  IN i # 0 /\ ~IsExpired(c[i], t)

Response(op, key, body, flag) ==
  last' = [op |-> op, key |-> key, result |-> body, present |-> flag]

Periods == {"7", "30"}
AnalyticsTypes == {"all", "residents"}
DbSnapshots == {"rows1", "rows2"}
QueryFailures == {{}, {"residents"}}

\* GET /api/analytics up to its first await: the dates, the cache lookup and
\* on a hit the response
AnalyticsGET(c, period, type) ==
  LET r        == [route |-> "GET /api/analytics", period |-> period,
                   type |-> type, endDate |-> ToString(now)]
      cacheKey == AnalyticsKey(period, type)
      hit      == ObjectCached(cache, cacheKey, now)
  IN
  /\ pc[c] = "idle"
  /\ req' = [req EXCEPT ![c] = r]
  /\ cache' = getCacheStore(cache, cacheKey, now)
  /\ IF hit
     THEN /\ metrics' = recordMetric(metrics)
          /\ pc' = [pc EXCEPT ![c] = "done"]
          /\ Response(r.route, cacheKey,
                      HitBody(r, cache[IndexOf(cache, PrefixKey(cacheKey))].data),
                      TRUE)
     ELSE /\ pc' = [pc EXCEPT ![c] = "query"]
          /\ Response(r.route, cacheKey, Null, FALSE)
          /\ UNCHANGED metrics
  /\ UNCHANGED <<now, requestQueue, attempt, calls, lastError, timeoutAt,
                 backoffUntil, failedAt, promise, joinedTo, outcome,
                 fromCache, issuedDuring>>

\* GET /api/analytics after its queries: the result is cached and returned
AnalyticsComputed(c, failed, db) ==
  LET analytics == Analytics(req[c].type, failed, db, 1)
      cacheKey  == AnalyticsKey(req[c].period, req[c].type)
  IN
  /\ pc[c] = "query"
  /\ cache' = setCache(cache, cacheKey, analytics, AnalyticsRouteTTL, now)
  /\ metrics' = recordMetric(metrics)
  /\ pc' = [pc EXCEPT ![c] = "done"]
  /\ Response(req[c].route, cacheKey, MissBody(req[c], analytics), FALSE)
  /\ UNCHANGED <<now, requestQueue, req, attempt, calls, lastError, timeoutAt,
                 backoffUntil, failedAt, promise, joinedTo, outcome,
                 fromCache, issuedDuring>>

\* GET /api/analytics when a query throws: the catch block answers 500
AnalyticsThrown(c) ==
  /\ pc[c] = "query"
  /\ pc' = [pc EXCEPT ![c] = "done"]
  /\ Response(req[c].route, "500", Null, FALSE)
  /\ UNCHANGED <<now, cache, metrics, requestQueue, req, attempt, calls,
                 lastError, timeoutAt, backoffUntil, failedAt, promise,
                 joinedTo, outcome, fromCache, issuedDuring>>

\* what a payments handler met on its way: the request body, then the
\* answers of the database
PostBodies == {"not json", "no amount", "amount 0", "valid"}
ResidentLookups == {"found", "none", "throws"}
DbResults == {"ok", "error", "throws"}
PutBodies ==
  {"not json", "no ids", "markAsPaid", "updateStatus", "updateStatus no status",
   "delete", "refund"}

DbErrorIgnored(result) == FALSE
\* `if (error)`, `if (updateError)`, `if (statusError)`, `if (deleteError)`
DbError(result) == result = "error"

\* POST /api/payments: the status it answers and whether the insert was made
PostStatus(body, resident, insert) ==
  IF body = "not json" THEN "500"
  ELSE IF body \in {"no amount", "amount 0"} THEN "400"
  ELSE IF resident = "throws" THEN "500"
  ELSE IF resident = "none" THEN "404"
  ELSE IF insert = "throws" THEN "500"
  ELSE IF DbError(insert) THEN "500"
  ELSE "201"
PostMutated(body, resident, insert) ==
  body = "valid" /\ resident = "found" /\ insert = "ok"

\* PUT /api/payments
PutStatus(body, update) ==
  IF body = "not json" THEN "500"
  ELSE IF body = "no ids" THEN "400"
  ELSE IF body = "updateStatus no status" THEN "400"
  ELSE IF body = "refund" THEN "400"
  ELSE IF update = "throws" THEN "500"
  ELSE IF DbError(update) THEN "500"
  ELSE "200"
PutMutated(body, update) ==
  body \in {"markAsPaid", "updateStatus", "delete"} /\ update = "ok"

\* a payments handler from its last await to its return; its earlier blocks
\* touch neither the cache nor the metrics. Only the path that passed every
\* early return, the one answering 200 or 201, reaches clearCache and timer.
PaymentsHandler(c, route, status, mutated) ==
  /\ pc[c] = "idle"
  /\ pc' = [pc EXCEPT ![c] = "done"]
  /\ IF status \in {"200", "201"}
     THEN /\ cache' = clearCache(cache)
          /\ metrics' = recordMetric(metrics)
     ELSE UNCHANGED <<cache, metrics>>
  /\ Response(route, status, IF mutated THEN "mutated" ELSE Null, cache # <<>>)
  /\ UNCHANGED <<now, requestQueue, req, attempt, calls, lastError, timeoutAt,
                 backoffUntil, failedAt, promise, joinedTo, outcome,
                 fromCache, issuedDuring>>

PaymentsPOST(c, body, resident, insert) ==
  PaymentsHandler(c, "POST /api/payments", PostStatus(body, resident, insert),
                  PostMutated(body, resident, insert))

PaymentsPUT(c, body, update) ==
  PaymentsHandler(c, "PUT /api/payments", PutStatus(body, update),
                  PutMutated(body, update))

RouteMaxTime == 2
NextRoutes ==
  \/ now < RouteMaxTime /\ Tick /\ UNCHANGED last
  \/ \E c \in Callers, p \in Periods, t \in AnalyticsTypes :
       /\ \A d \in Callers : d < c => pc[d] # "idle"
       /\ AnalyticsGET(c, p, t)
  \/ \E c \in Callers, f \in QueryFailures, db \in DbSnapshots :
       AnalyticsComputed(c, f, db)
  \/ \E c \in Callers : AnalyticsThrown(c)
  \/ \E c \in Callers, b \in PostBodies, r \in ResidentLookups,
        i \in DbResults :
       /\ \A d \in Callers : d < c => pc[d] # "idle"
       /\ PaymentsPOST(c, b, r, i)
  \/ \E c \in Callers, b \in PutBodies, u \in DbResults :
       /\ \A d \in Callers : d < c => pc[d] # "idle"
       /\ PaymentsPUT(c, b, u)

SpecRoutes == Init /\ [][NextRoutes]_vars

----------------------------------------------------------------------------
(* createNetworkOptimizer().retryRequest *)

\* `for (let i = 0; i < maxRetries; i++)`
RetryLoopContinues(i, maxRetries) == i < maxRetries

RetryWaitsAlways(i, maxRetries) == TRUE
\* `if (i < maxRetries - 1)`
RetryWaits(i, maxRetries) == i < maxRetries - 1

\* `delay * Math.pow(2, i)`
RetryDelay(delay, i) == delay * Pow2(i)

\* iteration i begins: requestFn is invoked and awaited
InvokeRequestFn(c, i, error) ==
  Exec(c, "fetch", i, calls[c] + 1, error, 0, 0, 0, Pending)

\* the loop test for iteration i; past the loop, `throw lastError!`
RetryIteration(c, i, error, maxRetries) ==
  IF RetryLoopContinues(i, maxRetries)
  THEN InvokeRequestFn(c, i, error)
  ELSE Exec(c, "done", i, calls[c], error, 0, 0, 0,
            [state |-> "rejected", val |-> error])

\* retryRequest(requestFn, maxRetries, delay) up to its first await
RetryRequest(c, maxRetries, delay) ==
  /\ pc[c] = "idle"
  /\ req' = [req EXCEPT ![c] = [maxRetries |-> maxRetries, delay |-> delay]]
  /\ RetryIteration(c, 0, NoError, maxRetries)
  /\ Event("retryRequest", "")
  /\ UNCHANGED <<now, cache, metrics, requestQueue, joinedTo, outcome,
                 fromCache, issuedDuring>>

\* requestFn's promise fulfils: `return await requestFn()`
RequestFnFulfils(c, value) ==
  /\ pc[c] = "fetch"
  /\ Exec(c, "done", attempt[c], calls[c], lastError[c], 0, 0, 0,
          [state |-> "fulfilled", val |-> value])
  /\ Event("fulfilled", value)
  /\ UNCHANGED <<now, cache, metrics, requestQueue, req, joinedTo, outcome,
                 fromCache, issuedDuring>>

\* requestFn's promise rejects: the catch block
RequestFnRejects(c, error) ==
  /\ pc[c] = "fetch"
  /\ IF RetryWaits(attempt[c], req[c].maxRetries)
     THEN Exec(c, "backoff", attempt[c], calls[c], error, 0,
               now + RetryDelay(req[c].delay, attempt[c]), now, promise[c])
     ELSE RetryIteration(c, attempt[c] + 1, error, req[c].maxRetries)
  /\ Event("rejected", error)
  /\ UNCHANGED <<now, cache, metrics, requestQueue, req, joinedTo, outcome,
                 fromCache, issuedDuring>>

\* the setTimeout of the wait fires and the loop goes on
RetryTimerFires(c) ==
  /\ pc[c] = "backoff"
  /\ now >= backoffUntil[c]
  /\ RetryIteration(c, attempt[c] + 1, lastError[c], req[c].maxRetries)
  /\ Event("timer", "")
  /\ UNCHANGED <<now, cache, metrics, requestQueue, req, joinedTo, outcome,
                 fromCache, issuedDuring>>

RetryFnMaxRetries == 3
RetryFnMaxDelay == 2
RetryFnMaxTime == 6
RequestFnErrors == {NetworkError, SyntaxError}

NextRetryFn ==
  \/ now < RetryFnMaxTime /\ Tick /\ Event("tick", "")
  \/ \E c \in RetryCallers, m \in 0..RetryFnMaxRetries,
        d \in 1..RetryFnMaxDelay : RetryRequest(c, m, d)
  \/ \E c \in RetryCallers, v \in FetchedPayloads : RequestFnFulfils(c, v)
  \/ \E c \in RetryCallers, e \in RequestFnErrors : RequestFnRejects(c, e)
  \/ \E c \in RetryCallers : RetryTimerFires(c)

SpecRetryFn == Init /\ [][NextRetryFn]_vars

----------------------------------------------------------------------------
(* Progress: timers and continuations run, the transport need not answer *)

\* a timer of call c is armed and not yet due
TimerPending(c) ==
  \/ pc[c] = "fetch" /\ now < timeoutAt[c]
  \/ pc[c] = "backoff" /\ now < backoffUntil[c]

\* time passes while some timer waits for it
TickToTimer == (\E c \in Callers : TimerPending(c)) /\ Tick

NextLive ==
  \/ TickToTimer /\ UNCHANGED last
  \/ \E c \in Callers, r \in Configs :
       /\ \A d \in Callers : d < c => pc[d] # "idle"
       /\ Request(c, r)
       /\ UNCHANGED last
  \/ \E c \in Callers, s \in Statuses : FetchRespond(c, s) /\ UNCHANGED last
  \/ \E c \in Callers : FetchFail(c) /\ UNCHANGED last
  \/ \E c \in Callers : TimeoutFire(c) /\ UNCHANGED last
  \/ \E c \in Callers, d \in FetchedPayloads :
       JsonDone(c, d) /\ UNCHANGED last
  \/ \E c \in Callers : JsonFail(c) /\ UNCHANGED last
  \/ \E c \in Callers : BackoffFire(c) /\ UNCHANGED last
  \/ \E c \in Callers : OwnerFinish(c) /\ UNCHANGED last
  \/ \E c \in Callers : JoinerFinish(c) /\ UNCHANGED last

\* the event loop runs every due timer callback and every continuation of a
\* settled promise; nothing obliges fetch() or response.json() to settle
Fairness ==
  /\ WF_vars(TickToTimer /\ UNCHANGED last)
  /\ \A c \in Callers :
       /\ WF_vars(TimeoutFire(c) /\ UNCHANGED last)
       /\ WF_vars(BackoffFire(c) /\ UNCHANGED last)
       /\ WF_vars(OwnerFinish(c) /\ UNCHANGED last)
       /\ WF_vars(JoinerFinish(c) /\ UNCHANGED last)

SpecLive == Init /\ [][NextLive]_vars /\ Fairness

----------------------------------------------------------------------------
(* Properties of the cache, checked under SpecCache *)

\* C4 (cache freshness): getCache(k) returns the stored value exactly when an
\* entry for k exists and now - storedAt <= timeToLive (stored values are
\* never null here, so a non-null result is a returned entry); otherwise it
\* returns null, and an expired entry is gone from the Map after the call.
C4_CacheFreshness ==
  [][last'.op = "getCache" =>
       LET cacheKey == PrefixKey(last'.key)
           i    == IndexOf(cache, cacheKey)
           live == i # 0 /\ now - cache[i].timestamp <= cache[i].ttl
       IN /\ (last'.result # Null) <=> live
          /\ live => last'.result = cache[i].data /\ cache' = cache
          /\ ~live => ~MapHas(cache', cacheKey)]_vars

\* C4 witness: a getCache of a stored but expired key returned null and
\* purged the entry.
C4_ExpiredPurged ==
  /\ last.op = "getCache"
  /\ last.present
  /\ last.result = Null
  /\ ~MapHas(cache, PrefixKey(last.key))

\* C5 (capacity bound): the number of entries never exceeds maxSize.
C5_CapacityBound == Len(cache) <= maxSize

\* C6 (oldest-first eviction): a setCache of a new key that finds the cache
\* at capacity (after its purge of expired entries) removes exactly one
\* entry, one whose storedAt is minimal among those present.
C6_OldestFirstEviction ==
  [][(/\ last'.op = "setCache"
      /\ ~MapHas(cache, PrefixKey(last'.key))
      /\ Len(cleanupCache(cache, now)) >= maxSize) =>
       LET pre     == cleanupCache(cache, now)
           removed == {i \in 1..Len(pre) : ~MapHas(cache', pre[i].key)}
       IN /\ Cardinality(removed) = 1
          /\ \A i \in removed : \A j \in 1..Len(pre) :
               pre[i].timestamp <= pre[j].timestamp]_vars

----------------------------------------------------------------------------
(* Properties of request de-duplication and caching, checked under Spec *)

Active(c) == pc[c] \in {"fetch", "json", "backoff", "settled"}
LiveEntry(c, cacheKey, t) ==
  /\ MapHas(c, cacheKey)
  /\ t - c[IndexOf(c, cacheKey)].timestamp <= c[IndexOf(c, cacheKey)].ttl

\* C1 as claimed (de-duplication): a call issued while a call with the same
\* method, endpoint and body is in flight starts no transport call, and it
\* and the first call end with the same resolved value or the same
\* rejection.
C1_AllCallersSameOutcome ==
  \A c \in Callers :
    issuedDuring[c] # 0 =>
      /\ calls[c] = 0
      /\ (pc[c] = "done" /\ pc[issuedDuring[c]] = "done")
           => outcome[c] = outcome[issuedDuring[c]]

\* C1 as amended: the same, for every such call that is not answered from
\* the cache by the lookup that precedes the de-duplication step.
C1_JoinersShareOutcome ==
  \A c \in Callers :
    (issuedDuring[c] # 0 /\ ~fromCache[c]) =>
      /\ calls[c] = 0
      /\ joinedTo[c] = issuedDuring[c]
      /\ pc[c] = "done" =>
           /\ pc[issuedDuring[c]] = "done"
           /\ outcome[c] = outcome[issuedDuring[c]]

\* C1 witness: a call that joined a pending request has ended with a
\* rejection, the one its owner ended with after two attempts.
C1_JoinerRejected ==
  \E c \in Callers :
    /\ pc[c] = "done"
    /\ joinedTo[c] # 0
    /\ outcome[c].kind = "rejected"
    /\ calls[joinedTo[c]] = 2

\* C2 (store under the looked-up key): when a GET with cache enabled
\* succeeds, the Map holds its data under the key request() derives and
\* looks up, with the configured ttl.
C2_StoredUnderDerivedKey ==
  [][\A c \in Callers :
       (/\ pc[c] = "json"
        /\ pc'[c] = "settled"
        /\ promise'[c].state = "fulfilled"
        /\ req[c].method = "GET"
        /\ req[c].cache) =>
         LET cacheKey == PrefixKey(CacheKey(req[c]))
         IN /\ MapHas(cache', cacheKey)
            /\ cache'[IndexOf(cache', cacheKey)].data = promise'[c].val
            /\ cache'[IndexOf(cache', cacheKey)].ttl = req[c].cacheTTL]_vars

\* C3 (cache hit): a GET with cache enabled that finds a live entry under
\* its key returns the entry's value at once, whatever the value, starts no
\* transport call and registers nothing in requestQueue.
C3_CacheHitReturnsEntry ==
  [][\A c \in Callers :
       (/\ pc[c] = "idle"
        /\ pc'[c] # "idle"
        /\ req'[c].method = "GET"
        /\ req'[c].cache
        /\ LiveEntry(cache, PrefixKey(CacheKey(req'[c])), now)) =>
         LET cacheKey == PrefixKey(CacheKey(req'[c]))
         IN /\ pc'[c] = "done"
            /\ outcome'[c] = [kind |-> "resolved",
                              val |-> cache[IndexOf(cache, cacheKey)].data]
            /\ calls'[c] = 0
            /\ requestQueue' = requestQueue]_vars

\* C7 (one pending request per key): for every key at most one
\* executeRequest is in progress, so at most one fetch is in flight, through
\* retries, timeouts and backoff waits; requestQueue maps the key to the
\* call that runs it, and to nothing else.
C7_OnePendingPerKey ==
  /\ \A c, d \in Callers :
       (Active(c) /\ Active(d) /\ CacheKey(req[c]) = CacheKey(req[d])) => c = d
  /\ \A c \in Callers :
       Active(c) => /\ QueueHas(requestQueue, CacheKey(req[c]))
                    /\ requestQueue[CacheKey(req[c])] = c
  /\ \A k \in DOMAIN requestQueue :
       Active(requestQueue[k]) /\ CacheKey(req[requestQueue[k]]) = k

\* C7 witness: a call is in its second attempt while another call for the
\* same key waits on it.
C7_JoinedDuringRetry ==
  \E c, d \in Callers :
    /\ pc[c] = "fetch"
    /\ attempt[c] = 2
    /\ pc[d] = "joined"
    /\ joinedTo[d] = c

----------------------------------------------------------------------------
(* Properties of the retry loop, checked under SpecRetry *)

IsStatus4xx(text) == SubSeq(text, 1, 1) = "4"

\* C8 (no retry on 4xx): when fetch answers with a status 400..499 the call
\* rejects at once with that error: no backoff is waited and no further
\* fetch is ever made for it.
C8_NoRetryOn4xx ==
  [][\A c \in RetryCallers :
       /\ (last'.op = "respond" /\ IsStatus4xx(last'.key)) =>
            /\ pc'[c] = "settled"
            /\ promise'[c].state = "rejected"
            /\ Includes(promise'[c].val, "HTTP " \o last'.key)
            /\ calls'[c] = calls[c]
            /\ backoffUntil'[c] = 0
       /\ pc[c] \in {"settled", "done"} => calls'[c] = calls[c]]_vars

\* C8 witness: a 404 on the first attempt of a call with retries = 3 has
\* rejected it after one fetch.
C8_Rejected404 ==
  \E c \in RetryCallers :
    /\ last.op = "respond"
    /\ last.key = "404"
    /\ req[c].retries = 3
    /\ pc[c] = "settled"
    /\ promise[c].state = "rejected"
    /\ calls[c] = 1

\* C9 (retry with backoff): attempt j + 1 starts no sooner than 2^j seconds
\* after attempt j failed, every retryable failure before the last attempt
\* leads to that wait, and a call that succeeds on attempt k + 1 resolves
\* with exactly k + 1 fetches made.
C9_RetryWithBackoff ==
  [][\A c \in RetryCallers :
       /\ (pc[c] = "backoff" /\ pc'[c] # "backoff") =>
            /\ pc'[c] = "fetch"
            /\ attempt'[c] = attempt[c] + 1
            /\ calls'[c] = calls[c] + 1
            /\ now - failedAt[c] >= Pow2(attempt[c])
       /\ last'.op \in {"respond", "fail", "timeout", "jsonFail"} =>
            \/ pc'[c] = "json"
            \/ last'.op = "respond" /\ IsStatus4xx(last'.key)
            \/ attempt[c] = req[c].retries
            \/ pc'[c] = "backoff" /\ failedAt'[c] = now
       /\ last'.op = "json" =>
            /\ pc'[c] = "settled"
            /\ promise'[c] = [state |-> "fulfilled", val |-> last'.key]
            /\ calls'[c] = attempt[c]]_vars

\* C9 witness: the third attempt of a call succeeded, 2 + 4 seconds or more
\* after it was issued.
C9_ThirdAttemptSucceeded ==
  \E c \in RetryCallers :
    /\ last.op = "json"
    /\ promise[c].state = "fulfilled"
    /\ calls[c] = 3
    /\ now >= 6

\* C10 (bounded attempts): a call makes at most `retries` fetches, and one
\* that is not answered from the cache has made at least one when it
\* settles.
C10_BoundedAttempts ==
  \A c \in RetryCallers :
    /\ pc[c] # "idle" => calls[c] <= req[c].retries
    /\ (pc[c] \in {"settled", "done"} /\ ~fromCache[c]) => calls[c] >= 1

\* C10 witness: a call with retries = 3 was rejected after three fetches.
C10_ExhaustedThree ==
  \E c \in RetryCallers :
    /\ pc[c] = "done"
    /\ outcome[c].kind = "rejected"
    /\ req[c].retries = 3
    /\ calls[c] = 3

----------------------------------------------------------------------------
(* Properties of two concurrent calls, checked under SpecLog *)

\* the error thrown inside the try block by the event of a step
ErrorOf(ev) ==
  CASE ev.op = "respond" ->
         HttpError(CHOOSE s \in RetryStatuses : s.text = ev.key)
    [] ev.op = "fail" -> NetworkError
    [] ev.op = "timeout" -> AbortError
    [] ev.op = "jsonFail" -> SyntaxError
    [] OTHER -> NoError

\* the step's attempt failed
Failed(ev) ==
  \/ ev.op \in {"fail", "timeout", "jsonFail"}
  \/ ev.op = "respond" /\ ~ResponseOk(CHOOSE s \in RetryStatuses : s.text = ev.key)

\* C11 (retry exhaustion): when the last allowed attempt of a call fails,
\* its promise rejects with the error of that attempt; the call that started
\* it and every call that awaits the same pending request end with exactly
\* that rejection, never with a value.
C11_LastErrorSurfaced ==
  [][\A c \in Callers :
       /\ (/\ Failed(last')
           /\ pc[c] \in {"fetch", "json"}
           /\ pc'[c] # pc[c]
           /\ attempt[c] = req[c].retries) =>
            promise'[c] = [state |-> "rejected", val |-> ErrorOf(last')]
       /\ (pc[c] = "settled" /\ pc'[c] = "done") =>
            outcome'[c] = [kind |-> IF promise[c].state = "rejected"
                                    THEN "rejected" ELSE "resolved",
                           val |-> promise[c].val]
       /\ (pc[c] = "joined" /\ pc'[c] = "done") =>
            /\ outcome'[c] = outcome[joinedTo[c]]
            /\ outcome'[c].val = promise[joinedTo[c]].val
            /\ outcome'[c].kind = "rejected"
                 <=> promise[joinedTo[c]].state = "rejected"]_vars

\* C11 witness: a call made two attempts, the body of the second response
\* was not JSON, and a call that awaited its pending request was rejected
\* with that error.
C11_JoinerGotLastError ==
  \E c, d \in Callers :
    /\ pc[d] = "done"
    /\ joinedTo[d] = c
    /\ calls[c] = 2
    /\ outcome[d] = [kind |-> "rejected", val |-> SyntaxError]
    /\ outcome[c] = outcome[d]

----------------------------------------------------------------------------
(* Further properties of the pending-request map, checked under Spec *)

\* C12 (pending removal): when the call that started a request resumes
\* after its promise settled, fulfilled or rejected, the entry of its key is
\* removed, whether or not other calls still wait on the promise; no entry
\* belongs to a call that has returned; and a call issued when no request
\* for its key is in progress, and not answered from the cache, starts a
\* transport call of its own.
C12_PendingRemoved ==
  [][/\ \A c \in Callers :
          (pc[c] = "settled" /\ pc'[c] = "done") =>
            ~QueueHas(requestQueue', CacheKey(req[c]))
     /\ \A k \in DOMAIN requestQueue' : pc'[requestQueue'[k]] # "done"
     /\ \A c \in Callers :
          (/\ pc[c] = "idle"
           /\ pc'[c] # "idle"
           /\ ~fromCache'[c]
           /\ \A d \in Callers :
                CacheKey(req[d]) = CacheKey(req'[c]) => ~Active(d)) =>
            /\ pc'[c] = "fetch"
            /\ calls'[c] = 1
            /\ joinedTo'[c] = 0
            /\ requestQueue'[CacheKey(req'[c])] = c]_vars

\* C12 witness: a call was rejected and has returned, and a later call with
\* the same key is making its own transport call.
C12_FreshCallAfterSettle ==
  \E c, d \in Callers :
    /\ pc[c] = "done"
    /\ outcome[c].kind = "rejected"
    /\ calls[c] >= 1
    /\ pc[d] = "fetch"
    /\ CacheKey(req[d]) = CacheKey(req[c])
    /\ requestQueue[CacheKey(req[d])] = d

----------------------------------------------------------------------------
(* Progress of a call, checked under SpecLive *)

\* C13 (every call settles): a call that was issued eventually returns or
\* throws, whatever the transport does.
C13_EveryCallSettles ==
  \A c \in Callers : (pc[c] # "idle") ~> (pc[c] = "done")

----------------------------------------------------------------------------
(* Further properties of the retry loop, checked under SpecRetry *)

\* C14 (timeout is attempt-scoped): when the abort timer of an attempt
\* fires, the attempt fails with the abort error and nothing else is
\* cancelled: if attempts remain the call stays pending, waits the backoff
\* and then starts the next attempt; if it was the last attempt the call
\* rejects with the abort error.
C14_TimeoutRetried ==
  [][\A c \in RetryCallers :
       /\ last'.op = "timeout" =>
            IF attempt[c] < req[c].retries
            THEN /\ pc'[c] = "backoff"
                 /\ promise'[c].state = "pending"
                 /\ lastError'[c] = AbortError
                 /\ backoffUntil'[c] = now + Pow2(attempt[c])
                 /\ QueueHas(requestQueue', CacheKey(req[c]))
            ELSE /\ pc'[c] = "settled"
                 /\ promise'[c] = [state |-> "rejected", val |-> AbortError]
       /\ (pc[c] = "backoff" /\ lastError[c] = AbortError
           /\ pc'[c] # "backoff") =>
            /\ pc'[c] = "fetch"
            /\ attempt'[c] = attempt[c] + 1
            /\ calls'[c] = calls[c] + 1
            /\ timeoutAt'[c] = now + req[c].timeout]_vars

\* C14 witness: the first attempt was aborted by its timeout and the second
\* attempt is under way.
C14_SecondAttemptAfterAbort ==
  \E c \in RetryCallers :
    /\ pc[c] = "fetch"
    /\ attempt[c] = 2
    /\ calls[c] = 2
    /\ lastError[c] = AbortError

----------------------------------------------------------------------------
(* Frame properties of a call, checked under Spec *)

\* C15 (cache bypass): no step of a call whose method is not GET, or whose
\* cache option is false, changes the cache, and such a call is never
\* answered from the cache, even when a live entry exists under its key.
C15_CacheBypass ==
  [][\A c \in Callers :
       (/\ pc'[c] # pc[c]
        /\ ~(req'[c].method = "GET" /\ req'[c].cache)) =>
         /\ cache' = cache
         /\ ~fromCache'[c]]_vars

\* C15 witness: a GET with cache = false resolved with fetched data while a
\* live entry with other data was stored under its key.
C15_BypassedLiveEntry ==
  \E c \in Callers :
    LET cacheKey == PrefixKey(CacheKey(req[c]))
    IN /\ pc[c] = "done"
       /\ req[c].method = "GET"
       /\ ~req[c].cache
       /\ outcome[c].kind = "resolved"
       /\ LiveEntry(cache, cacheKey, now)
       /\ cache[IndexOf(cache, cacheKey)].data # outcome[c].val

\* C19 (frame of a call): no step of a call changes the metrics list of the
\* shared PerformanceOptimizer.
C19_MetricsUntouched ==
  [][\A c \in Callers : pc'[c] # pc[c] => metrics' = metrics]_vars

\* the two requests differ in method, endpoint or body
DistinctRequests(r1, r2) ==
  \/ r1.method # r2.method
  \/ r1.endpoint # r2.endpoint
  \/ r1.body # r2.body

\* C20 (distinct keys are independent): a call issued while calls for
\* different keys only are in flight, and not answered from the cache,
\* starts its own transport call at once; no step of a call changes the
\* attempt counter, timers, promise or outcome of a call for a different
\* key; and a call never waits on, nor ends with the outcome of, the promise
\* of a call for a different key.
C20_DistinctKeysIndependent ==
  [][\A c, d \in Callers :
       (/\ c # d
        /\ pc'[c] # pc[c]
        /\ pc[d] # "idle"
        /\ DistinctRequests(req'[c], req[d])) =>
         /\ (/\ pc[c] = "idle"
             /\ ~fromCache'[c]
             /\ \A e \in Callers \ {c} :
                  Active(e) => DistinctRequests(req'[c], req[e])) =>
              /\ pc'[c] = "fetch"
              /\ calls'[c] = 1
              /\ joinedTo'[c] = 0
              /\ requestQueue'[CacheKey(req'[c])] = c
         /\ pc'[d] = pc[d]
         /\ attempt'[d] = attempt[d]
         /\ calls'[d] = calls[d]
         /\ lastError'[d] = lastError[d]
         /\ timeoutAt'[d] = timeoutAt[d]
         /\ backoffUntil'[d] = backoffUntil[d]
         /\ promise'[d] = promise[d]
         /\ outcome'[d] = outcome[d]
         /\ (Active(d) => /\ QueueHas(requestQueue', CacheKey(req[d]))
                          /\ requestQueue'[CacheKey(req[d])] = d)
         /\ joinedTo'[c] # d
         /\ (pc'[c] = "done" /\ ~fromCache'[c]) =>
              outcome'[c] = OutcomeOf(promise[IF joinedTo[c] = 0 THEN c
                                              ELSE joinedTo[c]])]_vars

\* C20 witness: a call issued while a call for a different key was in
\* flight has resolved after one attempt of its own, while the earlier call
\* is still waiting its backoff after a failed attempt.
C20_SecondResolvedFirstWaiting ==
  \E c, d \in Callers :
    /\ c < d
    /\ DistinctRequests(req[c], req[d])
    /\ pc[c] = "backoff"
    /\ pc[d] = "done"
    /\ ~fromCache[d]
    /\ outcome[d].kind = "resolved"
    /\ calls[d] = 1

----------------------------------------------------------------------------
(* Key derivation, checked under SpecKeys *)

\* the members of a body, whatever their order
MembersOf(body) == {body.pairs[i] : i \in 1..Len(body.pairs)}

\* C16 (key canonicalization): two calls with the same method and endpoint
\* whose bodies hold the same key-value pairs derive the same key, so they
\* are never both in progress with a pending request of their own.
C16_OrderInsensitiveKey ==
  \A c, d \in Callers :
    (/\ pc[c] # "idle"
     /\ pc[d] # "idle"
     /\ req[c].method = req[d].method
     /\ req[c].endpoint = req[d].endpoint
     /\ MembersOf(req[c].body) = MembersOf(req[d].body)) =>
      /\ CacheKey(req[c]) = CacheKey(req[d])
      /\ (Active(c) /\ Active(d)) => c = d

----------------------------------------------------------------------------
(* Clearing and filling the cache, checked under SpecLog *)

\* the keys under which SpecLog stores entries
StoredKeys == PrefetchEndpoints \cup DirectKeys

\* C17 (clear-all): right after clearCache, getCache returns null for
\* every key and no entry that was stored remains; the clear changes
\* neither requestQueue nor anything of a call in flight, whose attempt
\* counter, timers, promise and waiters are as before.
C17_ClearAll ==
  [][last'.op = "clearCache" =>
       /\ \A k \in StoredKeys : getCacheResult(cache', k, now') = Null
       /\ \A i \in 1..Len(cache) : ~MapHas(cache', cache[i].key)
       /\ requestQueue' = requestQueue
       /\ callVars' = callVars]_vars

\* C17 witness: clearCache removed a stored entry while a call was in its
\* second attempt with another call waiting on it.
C17_ClearedDuringRetry ==
  \E c, d \in Callers :
    /\ last.op = "clearCache"
    /\ last.key # ""
    /\ cache = <<>>
    /\ pc[c] = "fetch"
    /\ attempt[c] = 2
    /\ pc[d] = "joined"
    /\ joinedTo[d] = c
    /\ requestQueue[CacheKey(req[c])] = c

\* the entries a step adds to the Map or rewrites
NewEntries ==
  {cache'[i] : i \in 1..Len(cache')} \ {cache[i] : i \in 1..Len(cache)}

\* C18 (entries come from successful responses): a step stores an entry
\* only when it is the continuation of a call whose response was ok and
\* whose body was read, or the continuation of a prefetch whose response
\* was ok.
C18_OnlySuccessStored ==
  [][NewEntries # {} =>
       \/ last'.op = "json"
       \/ /\ last'.op = "prefetch"
          /\ ResponseOk(CHOOSE s \in Statuses : s.text = last'.key)]_vars

----------------------------------------------------------------------------
(* The backoff waits of a call, checked under SpecRetry *)

\* C21 (no trailing backoff): a call waits a backoff only after a failed
\* attempt that is not its last, with as many waits begun as fetches made;
\* every wait ends in a further fetch; and when the last allowed attempt
\* fails, or any attempt fails with a 4xx, the call rejects in the same
\* step, at the same instant, with no backoff armed.
C21_NoTrailingBackoff ==
  [][\A c \in RetryCallers :
       /\ pc'[c] = "backoff" =>
            /\ attempt'[c] < req'[c].retries
            /\ calls'[c] = attempt'[c]
       /\ (pc[c] = "backoff" /\ pc'[c] # "backoff") =>
            /\ pc'[c] = "fetch"
            /\ calls'[c] = calls[c] + 1
       /\ (/\ Failed(last')
           /\ pc[c] \in {"fetch", "json"}
           /\ \/ attempt[c] = req[c].retries
              \/ last'.op = "respond" /\ IsStatus4xx(last'.key)) =>
            /\ pc'[c] = "settled"
            /\ promise'[c].state = "rejected"
            /\ backoffUntil'[c] = 0
            /\ now' = now]_vars

\* C21 witness: a call with retries = 2 failed at once, waited its one
\* backoff of 2 seconds, failed again and was rejected at that instant.
C21_RejectedRightAfterLastFailure ==
  \E c \in RetryCallers :
    /\ pc[c] = "settled"
    /\ promise[c].state = "rejected"
    /\ req[c].retries = 2
    /\ calls[c] = 2
    /\ last.op = "respond"
    /\ last.key = "503"
    /\ now = 2


\* C22 (prefetchCriticalData always resolves): prefetchCriticalData starts
\* every one of its calls; a step in which one of them is rejected, after its
\* retries or on a 4xx, changes nothing of the other calls; and the promise of
\* prefetchCriticalData settles only once every call has settled, always as
\* fulfilled, never as rejected.
C22_PrefetchNeverRejects ==
  [][/\ ((\A c \in DOMAIN pc : pc[c] = "idle") /\ pc' # pc) =>
          /\ DOMAIN pc' = PrefetchCallers
          /\ \A c \in PrefetchCallers :
               pc'[c] # "idle" /\ req'[c] = PrefetchRequests[c]
     /\ \A c \in PrefetchCallers \cap DOMAIN pc :
          (\/ promise[c].state # "rejected" /\ promise'[c].state = "rejected"
           \/ outcome[c].kind # "rejected" /\ outcome'[c].kind = "rejected") =>
            \A d \in (PrefetchCallers \cap DOMAIN pc) \ {c} :
              /\ pc'[d] = pc[d] /\ promise'[d] = promise[d]
              /\ outcome'[d] = outcome[d] /\ attempt'[d] = attempt[d]
              /\ calls'[d] = calls[d] /\ timeoutAt'[d] = timeoutAt[d]
              /\ backoffUntil'[d] = backoffUntil[d]
     /\ last'.op = "prefetchCriticalData" =>
          /\ last'.key = "fulfilled"
          /\ \A c \in PrefetchCallers : outcome'[c].kind # "none"]_vars
C22_FulfilledDespiteRejections ==
  /\ last.op = "prefetchCriticalData" /\ last.key = "fulfilled"
  /\ outcome[1].kind = "rejected" /\ calls[1] = DefaultRetries
  /\ outcome[2].kind = "resolved"
  /\ outcome[3].kind = "rejected" /\ calls[3] = 1


----------------------------------------------------------------------------
(* Responses that arrive after clearCache, checked under SpecLog *)

\* C23 (no stale write after a clear): the step that follows a clearCache
\* and completes a call writes nothing into the cache; the call was issued
\* before the clear, since issuing it is a step of its own.
C23_NoWriteBehindClear ==
  [][(last.op = "clearCache" /\ last'.op = "json") => NewEntries = {}]_vars


----------------------------------------------------------------------------
(* Eviction, replacement and ttl in setCache, checked under SpecCache *)

LiveAt(c, t) == {i \in 1..Len(c) : ~IsExpired(c[i], t)}

\* C24 (eviction only when needed): after setCache no entry that had expired
\* remains in the Map, and an entry that was live is removed only if the
\* live entries numbered maxSize or more; so no live entry is evicted while
\* an expired one stays.
C24_EvictOnlyWhenNeeded ==
  [][last'.op = "setCache" =>
       /\ \A i \in 1..Len(cache') : ~IsExpired(cache'[i], now)
       /\ (\E i \in LiveAt(cache, now) : ~MapHas(cache', cache[i].key)) =>
            Cardinality(LiveAt(cache, now)) >= maxSize]_vars

\* C24 witness: a setCache of a new key found an expired entry beside a live
\* one, purged it and kept the live one.
C24_PurgedNotEvicted ==
  /\ last.op = "setCache" /\ ~last.present /\ last.result = "purged"
  /\ Len(cache) = maxSize
  /\ \E i \in 1..Len(cache) : cache[i].timestamp < now


\* C25 (replace is frame-preserving): a setCache of a key that is in the
\* Map keeps every other entry that was live, and when the key's own entry
\* was live the number of live entries is as before.
C25_ReplaceKeepsOthers ==
  [][(last'.op = "setCache" /\ last'.present) =>
       LET k == IndexOf(cache, PrefixKey(last'.key))
       IN /\ \A i \in LiveAt(cache, now) \ {k} : cache[i] \in
               {cache'[j] : j \in 1..Len(cache')}
          /\ k \in LiveAt(cache, now) =>
               Cardinality(LiveAt(cache', now)) =
                 Cardinality(LiveAt(cache, now))]_vars


\* C26 (ttl fidelity): the entry written by setCache(k, v, ttl) carries the
\* ttl that was passed, 0 included, and the configured default only when
\* the argument was omitted.
C26_TTLFidelity ==
  [][\A k \in CacheKeys, d \in CachePayloads, t \in SetTTLs :
       (last'.op = "setCache" /\ last'.key = k /\ SetCache(k, d, t)) =>
         LET i == IndexOf(cache', PrefixKey(k))
         IN /\ i # 0
            /\ cache'[i].ttl = IF t = Omitted THEN configTTL ELSE t]_vars


----------------------------------------------------------------------------
(* The route handlers, checked under SpecRoutes *)

\* C27 (the analytics route is cache-transparent): a response of GET
\* /api/analytics served from the cache has the members that the response
\* computed on a miss has for the same request and the same analytics:
\* period, startDate, endDate and the sections.
C27_CacheTransparent ==
  [][\A c \in Callers :
       (/\ pc[c] = "idle" /\ pc'[c] = "done"
        /\ last'.op = "GET /api/analytics" /\ last'.present) =>
         FieldNames(last'.result) =
           FieldNames(MissBody(req'[c],
             cache[IndexOf(cache, PrefixKey(last'.key))].data))]_vars

\* C28 (payment mutations invalidate exactly on success): a POST or PUT to
\* /api/payments whose database mutation succeeded leaves the cache empty;
\* on every other path it answers 400, 404 or 500 and leaves the cache as it
\* was.
C28_InvalidateOnSuccessOnly ==
  [][last'.op \in {"POST /api/payments", "PUT /api/payments"} =>
       IF last'.result = "mutated"
       THEN cache' = <<>> /\ last'.key \in {"200", "201"}
       ELSE cache' = cache /\ last'.key \in {"400", "404", "500"}]_vars

\* C28 witness: a payment was created while the cache held an entry, and the
\* cache is empty afterwards.
C28_CreatedAndCleared ==
  /\ last.op = "POST /api/payments" /\ last.key = "201"
  /\ last.result = "mutated" /\ last.present
  /\ cache = <<>>


----------------------------------------------------------------------------
(* retryRequest, checked under SpecRetryFn *)

\* C29 (retryRequest): with maxRetries >= 1, requestFn is invoked at most
\* maxRetries times; the first fulfilment is returned with no further
\* invocation; after the failure of invocation i (from 0) the call waits
\* delay * 2^i when i < maxRetries - 1, and the next invocation comes only
\* once that time has passed; the failure of invocation maxRetries - 1
\* rejects the call at once with the error of that invocation.
C29_RetryRequest ==
  [][\A c \in RetryCallers :
       (pc'[c] # "idle" /\ req'[c].maxRetries >= 1) =>
         LET m == req'[c].maxRetries
             i == attempt[c]
         IN /\ calls'[c] <= m
            /\ pc[c] = "done" => calls'[c] = calls[c]
            /\ last'.op = "fulfilled" =>
                 /\ pc'[c] = "done" /\ calls'[c] = calls[c]
                 /\ promise'[c] = [state |-> "fulfilled", val |-> last'.key]
            /\ (last'.op = "rejected" /\ i < m - 1) =>
                 /\ pc'[c] = "backoff" /\ calls'[c] = calls[c]
                 /\ backoffUntil'[c] = now + req[c].delay * Pow2(i)
            /\ (last'.op = "rejected" /\ i >= m - 1) =>
                 /\ pc'[c] = "done" /\ calls'[c] = m
                 /\ promise'[c] = [state |-> "rejected", val |-> last'.key]
            /\ (pc[c] = "backoff" /\ calls'[c] # calls[c]) =>
                 /\ now >= backoffUntil[c]
                 /\ calls'[c] = calls[c] + 1
                 /\ attempt'[c] = i + 1]_vars

\* C29 witness: three invocations failed, the waits of 1 and 2 seconds were
\* served after the first two, and the call is rejected with the error of
\* the third while the second had failed with another error.
C29_RejectedWithThirdError ==
  \E c \in RetryCallers :
    /\ pc[c] = "done" /\ calls[c] = 3 /\ now = 3
    /\ "maxRetries" \in DOMAIN req[c] /\ req[c].delay = 1
    /\ last.op = "rejected" /\ last.key = SyntaxError
    /\ promise[c] = [state |-> "rejected", val |-> SyntaxError]

====
